---- MODULE Spec2Model ----
(***************************************************************************)
(* Model of the medicine-ocr-flask-api text pipeline:                      *)
(*   image_processor.py  ImageProcessor (reader singleton, process_image,  *)
(*                       process_images_in_parallel / _in_batches)         *)
(*   app.py              the /process-image handler and its API-key guard  *)
(*                                                                         *)
(* A Python str is modelled as a sequence of tokens: a fragment text is a  *)
(* one-token string, ' '.join and '\n'.join insert separator tokens.       *)
(* A Python Optional is a sequence of length 0 (None) or 1.                *)
(***************************************************************************)
EXTENDS Integers, Sequences, FiniteSets, TLC

\* ---------------------------------------------------------------- bounds
MaxFrags == 3
MaxImages == 3
MaxBatch == 2
CpuCount == 2
NumThreads == 3

\* ------------------------------------------------------ program constants
Tolerance == 10

\* ------------------------------------------------------------ input space
YS == {0, 9, 10, 11, 18, 22}
XS == {10, 50}
TextNames == <<"t1", "t2", "t3", "t4", "t5">>

None == <<>>
Some(v) == <<v>>

\* One recognizer detection (bbox, text, confidence); only bbox[0] is read.
Fragment(y, x, t) == [bbox |-> <<<<x, y>>>>, text |-> <<t>>]
\* A detection whose bbox is empty: bbox[0] raises IndexError.
Malformed(t) == [bbox |-> <<>>, text |-> <<t>>]

Anchors == YS \X XS

\* The lists the recognizer can return: the k-th detection carries text tk.
FragLists ==
  UNION {{[k \in 1..n |-> Fragment(a[k][1], a[k][2], TextNames[k])] :
            a \in [1..n -> Anchors]} : n \in 0..MaxFrags}

MalformedLists ==
  {<<Malformed("t1")>>,
   <<Fragment(0, 10, "t1"), Malformed("t2")>>,
   <<Malformed("t1"), Fragment(0, 10, "t2")>>}

\* An image is what the pipeline's collaborators do with it.
OkImage(fr) == [pre |-> "ok", read |-> "ok", frags |-> fr]
PreFaultImage == [pre |-> "fault", read |-> "ok", frags |-> <<>>]
ReadFaultImage == [pre |-> "ok", read |-> "fault", frags |-> <<>>]
Images ==
  {OkImage(fr) : fr \in FragLists \cup MalformedLists}
    \cup {PreFaultImage, ReadFaultImage}

\* ------------------------------------------------------- pure operations
Abs(n) == IF n < 0 THEN -n ELSE n

RECURSIVE Join(_, _)
\* sep.join(strs)
Join(sep, strs) ==
  IF strs = <<>> THEN <<>>
  ELSE IF Len(strs) = 1 THEN strs[1]
  ELSE strs[1] \o <<sep>> \o Join(sep, Tail(strs))

HasMalformed(res) == \E k \in 1..Len(res) : Len(res[k].bbox) = 0

\* [(bbox[0][1], bbox[0][0], text) for bbox, text, _ in result]
ExtractCoordinates(res) ==
  [k \in 1..Len(res) |-> <<res[k].bbox[1][2], res[k].bbox[1][1], res[k].text>>]

\* Tuple comparison of the sort key (coord[0], coord[1]).
\* Faulty variant: the key is y alone.
KeyLessY(a, b) == a[1] < b[1]
KeyLess(a, b) == a[1] < b[1] \/ (a[1] = b[1] /\ a[2] < b[2])

RECURSIVE InsertStable(_, _)
\* e goes after every element whose key is not greater (list.sort is stable).
InsertStable(s, e) ==
  IF s = <<>> THEN <<e>>
  ELSE IF KeyLess(e, s[1]) THEN <<e>> \o s
  ELSE <<s[1]>> \o InsertStable(Tail(s), e)

RECURSIVE SortFrom(_, _)
SortFrom(acc, s) ==
  IF s = <<>> THEN acc ELSE SortFrom(InsertStable(acc, s[1]), Tail(s))

\* Faulty variant: the list is left in detection order.
SortUnsorted(s) == s
\* text_with_coordinates.sort(key=lambda coord: (coord[0], coord[1]))
SortByKey(s) == SortFrom(<<>>, s)

\* current_y = text_with_coordinates[0][0] if text_with_coordinates else None
InitialY(t) == IF t # <<>> THEN Some(t[1][1]) ELSE None

SweepInit(t) == [lines |-> <<>>, current_y |-> InitialY(t), current_line |-> <<>>]

\* current_y is None or abs(y - current_y) > 10
StartsNewLine(st, f) ==
  st.current_y = None \/ Abs(f[1] - st.current_y[1]) > Tolerance

\* Faulty variant: the reference y follows the last member of the band.
SweepStepDrift(st, f) ==
  IF st.current_y = None \/ Abs(f[1] - st.current_y[1]) > Tolerance
  THEN [lines |-> IF st.current_line # <<>>
                  THEN Append(st.lines, Join(" ", st.current_line))
                  ELSE st.lines,
        current_y |-> Some(f[1]),
        current_line |-> <<f[3]>>]
  ELSE [st EXCEPT !.current_line = Append(@, f[3]), !.current_y = Some(f[1])]
\* One iteration of the for loop over text_with_coordinates.
SweepStep(st, f) ==
  IF StartsNewLine(st, f)
  THEN [lines |-> IF st.current_line # <<>>
                  THEN Append(st.lines, Join(" ", st.current_line))
                  ELSE st.lines,
        current_y |-> Some(f[1]),
        current_line |-> <<f[3]>>]
  ELSE [st EXCEPT !.current_line = Append(@, f[3])]

\* Faulty variant: the last open band is not emitted.
AppendLastDropped(st) == st.lines
\* if current_line: lines.append(' '.join(current_line))
AppendLast(st) ==
  IF st.current_line # <<>>
  THEN Append(st.lines, Join(" ", st.current_line))
  ELSE st.lines

RECURSIVE SweepAll(_, _)
SweepAll(st, t) == IF t = <<>> THEN st ELSE SweepAll(SweepStep(st, t[1]), Tail(t))

NoTextFailure == [success |-> FALSE, error |-> "No text detected in the image."]
Success(txt) == [success |-> TRUE, text |-> txt]
OcrFailure(e) == [success |-> FALSE, error |-> "OCR failed: " \o e]
UnexpectedFailure(e) == [success |-> FALSE, error |-> "Unexpected error: " \o e]

\* Faulty variant: no early return on an empty result.
IsEmptyNever(res) == FALSE
\* not result
IsEmpty(res) == res = <<>>

\* issubclass(easyocr.Reader, BaseException): Reader is an ordinary class.
ReaderIsExceptionClass == FALSE

\* The except clauses of process_image, tried in order for exception e.
\* Matching against a class that is no BaseException subclass raises TypeError
\* out of the try statement; the later clauses are not tried.
HandleException(e) ==
  IF ~ReaderIsExceptionClass
  THEN [kind |-> "raise", exc |-> "TypeError"]
  ELSE IF e = "easyocr.Reader"
  THEN [kind |-> "return", value |-> OcrFailure(e)]
  ELSE [kind |-> "return", value |-> UnexpectedFailure(e)]

\* The fault, if any, the try body of process_image raises on img.
BodyFault(img) ==
  IF img.pre = "fault" THEN Some("PreprocessError")
  ELSE IF img.read = "fault" THEN Some("ReadtextError")
  ELSE IF ~IsEmpty(img.frags) /\ HasMalformed(img.frags) THEN Some("IndexError")
  ELSE None

FormatText(res) ==
  LET t == SortByKey(ExtractCoordinates(res))
  IN Join("\n", AppendLast(SweepAll(SweepInit(t), t)))

\* process_image as a function of the image: what a caller observes.
ProcessImageOutcome(img) ==
  IF BodyFault(img) # None THEN HandleException(BodyFault(img)[1])
  ELSE IF IsEmpty(img.frags) THEN [kind |-> "return", value |-> NoTextFailure]
  ELSE [kind |-> "return", value |-> Success(FormatText(img.frags))]

\* ------------------------------------------------------------------ state
VARIABLES
  \* one process_image call
  pc, image, result, twc, lines, current_y, current_line, idx, formatted_text,
  ret, exc,
  \* one process_images_in_batches / process_images_in_parallel call
  bpc, mode, images, batch_size, bi, results, futures, collected, bexc,
  \* ImageProcessor.__init__ in several threads
  reader, constructed, tpc, tlocal, self_reader,
  \* one /process-image request
  hpc, env_key, req, resp, core_calls, ocr_result

pvars == <<pc, image, result, twc, lines, current_y, current_line, idx,
           formatted_text, ret, exc>>
bvars == <<bpc, mode, images, batch_size, bi, results, futures, collected, bexc>>
tvars == <<reader, constructed, tpc, tlocal, self_reader>>
hvars == <<hpc, env_key, req, resp, core_calls, ocr_result>>

vars == <<pvars, bvars, tvars, hvars>>

\* what each component's steps leave alone
notP == <<bvars, tvars, hvars>>
notB == <<pvars, tvars, hvars>>
notT == <<pvars, bvars, hvars>>
notH == <<pvars, bvars, tvars>>

\* ----------------------------------------------- process_image, stepwise
PInit ==
  /\ pc = "idle"
  /\ image = PreFaultImage
  /\ result = <<>>
  /\ twc = <<>>
  /\ lines = <<>>
  /\ current_y = None
  /\ current_line = <<>>
  /\ idx = 0
  /\ formatted_text = <<>>
  /\ ret = None
  /\ exc = None

locals == <<result, twc, lines, current_y, current_line, idx, formatted_text>>

\* process_image(image) is entered.
Call ==
  /\ pc = "idle"
  /\ \E img \in Images : image' = img
  /\ pc' = "preprocess"
  /\ UNCHANGED <<locals, ret, exc>>
  /\ UNCHANGED notP

\* image = self.preprocess_image(image); image_np = np.array(image)
Preprocess ==
  /\ pc = "preprocess"
  /\ IF image.pre = "fault"
     THEN pc' = "except" /\ exc' = Some("PreprocessError")
     ELSE pc' = "readtext" /\ exc' = exc
  /\ UNCHANGED <<image, locals, ret>>
  /\ UNCHANGED notP

\* result = self.reader.readtext(image_np)
Readtext ==
  /\ pc = "readtext"
  /\ IF image.read = "fault"
     THEN pc' = "except" /\ exc' = Some("ReadtextError") /\ result' = result
     ELSE pc' = "check" /\ exc' = exc /\ result' = image.frags
  /\ UNCHANGED <<image, twc, lines, current_y, current_line, idx,
                 formatted_text, ret>>
  /\ UNCHANGED notP

\* if not result: return {'success': False, 'error': 'No text detected ...'}
CheckEmpty ==
  /\ pc = "check"
  /\ IF IsEmpty(result)
     THEN pc' = "done" /\ ret' = Some(NoTextFailure)
     ELSE pc' = "extract" /\ ret' = ret
  /\ UNCHANGED <<image, locals, exc>>
  /\ UNCHANGED notP

\* the list comprehension over result
Extract ==
  /\ pc = "extract"
  /\ IF HasMalformed(result)
     THEN pc' = "except" /\ exc' = Some("IndexError") /\ twc' = twc
     ELSE pc' = "sort" /\ exc' = exc /\ twc' = ExtractCoordinates(result)
  /\ UNCHANGED <<image, result, lines, current_y, current_line, idx,
                 formatted_text, ret>>
  /\ UNCHANGED notP

\* the sort, then the loop's initialisation
Sort ==
  /\ pc = "sort"
  /\ twc' = SortByKey(twc)
  /\ lines' = SweepInit(twc').lines
  /\ current_y' = SweepInit(twc').current_y
  /\ current_line' = SweepInit(twc').current_line
  /\ idx' = 1
  /\ pc' = "sweep"
  /\ UNCHANGED <<image, result, formatted_text, ret, exc>>
  /\ UNCHANGED notP

SweepState == [lines |-> lines, current_y |-> current_y, current_line |-> current_line]

\* one iteration of: for y, x, text in text_with_coordinates
Sweep ==
  /\ pc = "sweep"
  /\ idx <= Len(twc)
  /\ LET st == SweepStep(SweepState, twc[idx])
     IN /\ lines' = st.lines
        /\ current_y' = st.current_y
        /\ current_line' = st.current_line
  /\ idx' = idx + 1
  /\ UNCHANGED <<pc, image, result, twc, formatted_text, ret, exc>>
  /\ UNCHANGED notP

\* the loop is exhausted: append the last line, join, return
Finish ==
  /\ pc = "sweep"
  /\ idx > Len(twc)
  /\ lines' = AppendLast(SweepState)
  /\ formatted_text' = Join("\n", lines')
  /\ ret' = Some(Success(formatted_text'))
  /\ pc' = "done"
  /\ UNCHANGED <<image, result, twc, current_y, current_line, idx, exc>>
  /\ UNCHANGED notP

\* an exception left the try body: the except clauses are tried
Except ==
  /\ pc = "except"
  /\ LET h == HandleException(exc[1])
     IN IF h.kind = "raise"
        THEN pc' = "raised" /\ exc' = Some(h.exc) /\ ret' = ret
        ELSE pc' = "done" /\ exc' = None /\ ret' = Some(h.value)
  /\ UNCHANGED <<image, locals>>
  /\ UNCHANGED notP

PNext ==
  \/ Call
  \/ Preprocess
  \/ Readtext
  \/ CheckEmpty
  \/ Extract
  \/ Sort
  \/ Sweep
  \/ Finish
  \/ Except

\* ------------------------------------------------------ batch processing
\* The images a batch is drawn from: two with text, one blank, one on which
\* the recognizer faults.
BatchImages ==
  {OkImage(<<Fragment(0, 50, "t1"), Fragment(9, 10, "t2")>>),
   OkImage(<<Fragment(11, 10, "t1"), Fragment(0, 10, "t2")>>),
   OkImage(<<>>),
   ReadFaultImage}

RECURSIVE SeqsUpTo(_, _)
SeqsUpTo(S, n) ==
  IF n = 0 THEN {<<>>}
  ELSE LET shorter == SeqsUpTo(S, n - 1)
       IN shorter \cup {Append(q, e) : q \in {r \in shorter : Len(r) = n - 1}, e \in S}

BInit ==
  /\ bpc = "idle"
  /\ mode = "batches"
  /\ images = <<>>
  /\ batch_size = 1
  /\ bi = 0
  /\ results = <<>>
  /\ futures = <<>>
  /\ collected = <<>>
  /\ bexc = None

\* fs = [executor.submit(fn, *args) for args in zip(*iterables)]
Submit(batch) == [k \in 1..Len(batch) |-> [state |-> "pending", arg |-> batch[k]]]

\* images[i:i + batch_size], i counted from 0
Slice(imgs, i, n) ==
  SubSeq(imgs, i + 1, IF i + n < Len(imgs) THEN i + n ELSE Len(imgs))

\* process_images_in_batches(images, batch_size) is entered.
BatchesCall ==
  /\ bpc = "idle"
  /\ \E imgs \in SeqsUpTo(BatchImages, MaxImages), n \in 1..MaxBatch :
       images' = imgs /\ batch_size' = n
  /\ mode' = "batches"
  /\ results' = <<>>
  /\ bi' = 0
  /\ bpc' = "loop"
  /\ UNCHANGED <<futures, collected, bexc>>
  /\ UNCHANGED notB

\* process_images_in_parallel(images) is entered on its own.
ParallelCall ==
  /\ bpc = "idle"
  /\ \E imgs \in SeqsUpTo(BatchImages, MaxImages) : images' = imgs
  /\ mode' = "parallel"
  /\ futures' = Submit(images')
  /\ collected' = <<>>
  /\ bpc' = "map"
  /\ UNCHANGED <<batch_size, bi, results, bexc>>
  /\ UNCHANGED notB

\* for i in range(0, len(images), batch_size): the next chunk is mapped
LoopChunk ==
  /\ bpc = "loop"
  /\ bi < Len(images)
  /\ futures' = Submit(Slice(images, bi, batch_size))
  /\ collected' = <<>>
  /\ bpc' = "map"
  /\ UNCHANGED <<mode, images, batch_size, bi, results, bexc>>
  /\ UNCHANGED notB

\* the range is exhausted: return results
LoopReturn ==
  /\ bpc = "loop"
  /\ bi >= Len(images)
  /\ bpc' = "returned"
  /\ UNCHANGED <<mode, images, batch_size, bi, results, futures, collected, bexc>>
  /\ UNCHANGED notB

Running == {k \in 1..Len(futures) : futures[k].state = "running"}
Pending == {k \in 1..Len(futures) : futures[k].state = "pending"}

\* an idle worker thread takes the oldest queued work item
WorkerStart ==
  /\ bpc \in {"map", "shutdown"}
  /\ Cardinality(Running) < CpuCount
  /\ Pending # {}
  /\ LET k == CHOOSE j \in Pending : \A m \in Pending : j <= m
     IN futures' = [futures EXCEPT ![k].state = "running"]
  /\ UNCHANGED <<bpc, mode, images, batch_size, bi, results, collected, bexc>>
  /\ UNCHANGED notB

\* a worker's process_image call ends: the future holds its result or exception
WorkerFinish ==
  /\ bpc \in {"map", "shutdown"}
  /\ \E k \in Running :
       futures' = [futures EXCEPT ![k] =
                     [state |-> "done", arg |-> @.arg,
                      outcome |-> ProcessImageOutcome(@.arg)]]
  /\ UNCHANGED <<bpc, mode, images, batch_size, bi, results, collected, bexc>>
  /\ UNCHANGED notB

\* list(executor.map(...)) takes the next future's result, in submission order;
\* a future holding an exception re-raises it and the rest are cancelled
Collect ==
  /\ bpc = "map"
  /\ Len(collected) < Len(futures)
  /\ LET k == Len(collected) + 1
     IN /\ futures[k].state = "done"
        /\ IF futures[k].outcome.kind = "return"
           THEN /\ collected' = Append(collected, futures[k].outcome.value)
                /\ UNCHANGED <<bpc, bexc, futures>>
           ELSE /\ bpc' = "shutdown"
                /\ bexc' = Some(futures[k].outcome.exc)
                /\ futures' = [j \in 1..Len(futures) |->
                                 IF futures[j].state = "pending"
                                 THEN [futures[j] EXCEPT !.state = "cancelled"]
                                 ELSE futures[j]]
                /\ UNCHANGED collected
  /\ UNCHANGED <<mode, images, batch_size, bi, results>>
  /\ UNCHANGED notB

\* the list is complete and the with block is left
MapDone ==
  /\ bpc = "map"
  /\ Len(collected) = Len(futures)
  /\ IF mode = "parallel"
     THEN results' = collected /\ bpc' = "returned" /\ bi' = bi
     ELSE results' = results \o collected /\ bpc' = "loop" /\ bi' = bi + batch_size
  /\ UNCHANGED <<mode, images, batch_size, futures, collected, bexc>>
  /\ UNCHANGED notB

\* executor.__exit__ has waited for the running workers: the exception leaves
ShutdownRaise ==
  /\ bpc = "shutdown"
  /\ Running = {}
  /\ bpc' = "raised"
  /\ UNCHANGED <<mode, images, batch_size, bi, results, futures, collected, bexc>>
  /\ UNCHANGED notB

BNext ==
  \/ BatchesCall
  \/ ParallelCall
  \/ LoopChunk
  \/ LoopReturn
  \/ WorkerStart
  \/ WorkerFinish
  \/ Collect
  \/ MapDone
  \/ ShutdownRaise

\* ------------------------------------------- ImageProcessor.__init__
Threads == 1..NumThreads

TInit ==
  /\ reader = None
  /\ constructed = 0
  /\ tpc = [t \in Threads |-> "start"]
  /\ tlocal = [t \in Threads |-> None]
  /\ self_reader = [t \in Threads |-> None]

\* if not ImageProcessor._reader:
InitCheck(t) ==
  /\ tpc[t] = "start"
  /\ tpc' = [tpc EXCEPT ![t] = IF reader = None THEN "construct" ELSE "assign"]
  /\ UNCHANGED <<reader, constructed, tlocal, self_reader>>
  /\ UNCHANGED notT

\* easyocr.Reader(['en'], gpu=True): a new reader object
InitConstruct(t) ==
  /\ tpc[t] = "construct"
  /\ constructed' = constructed + 1
  /\ tlocal' = [tlocal EXCEPT ![t] = Some(constructed')]
  /\ tpc' = [tpc EXCEPT ![t] = "store"]
  /\ UNCHANGED <<reader, self_reader>>
  /\ UNCHANGED notT

\* ImageProcessor._reader = <the new object>
InitStore(t) ==
  /\ tpc[t] = "store"
  /\ reader' = tlocal[t]
  /\ tpc' = [tpc EXCEPT ![t] = "assign"]
  /\ UNCHANGED <<constructed, tlocal, self_reader>>
  /\ UNCHANGED notT

\* self.reader = ImageProcessor._reader
InitAssign(t) ==
  /\ tpc[t] = "assign"
  /\ self_reader' = [self_reader EXCEPT ![t] = reader]
  /\ tpc' = [tpc EXCEPT ![t] = "done"]
  /\ UNCHANGED <<reader, constructed, tlocal>>
  /\ UNCHANGED notT

TNext ==
  \E t \in Threads :
    \/ InitCheck(t)
    \/ InitConstruct(t)
    \/ InitStore(t)
    \/ InitAssign(t)

\* --------------------------------------------------------------- app.py
\* ALLOWED_EXTENSIONS = {'png', 'jpg', 'jpeg'}
ALLOWED_EXTENSIONS == {<<"png">>, <<"jpg">>, <<"jpeg">>}

\* str.lower on one token
LowerToken(t) ==
  CASE t = "PNG" -> "png"
    [] t = "Jpg" -> "jpg"
    [] OTHER -> t
Lower(str) == [k \in 1..Len(str) |-> LowerToken(str[k])]

RECURSIVE AfterLastDot(_)
\* filename.rsplit('.', 1)[1], for a filename holding a '.'
AfterLastDot(fn) ==
  IF \A k \in 1..Len(fn) : fn[k] # "." THEN fn ELSE AfterLastDot(Tail(fn))

\* Faulty variant: any dotted filename passes.
AllowedFileAnyDotted(fn) == \E k \in 1..Len(fn) : fn[k] = "."
\* '.' in filename and filename.rsplit('.', 1)[1].lower() in ALLOWED_EXTENSIONS
AllowedFile(fn) ==
  /\ \E k \in 1..Len(fn) : fn[k] = "."
  /\ Lower(AfterLastDot(fn)) \in ALLOWED_EXTENSIONS

\* api_key and api_key == os.getenv('API_KEY')
ApiKeyAccepted(key, env) == key # None /\ key[1] # "" /\ key = env

\* bool(file): a FileStorage is truthy when it has a filename
FileTruthy(fn) == fn # <<>>

Filenames ==
  {<<>>, <<"a", ".", "png">>, <<"a", ".", "PNG">>, <<"a", ".", "Jpg">>,
   <<"a", ".", "jpeg">>, <<"a", ".", "gif">>, <<"png">>, <<"a", ".">>,
   <<".", "png">>, <<"a", ".", "png", ".", "gif">>, <<"a", ".", "gif", ".", "jpg">>}

HeaderKeys == {None, Some(""), Some("k1"), Some("k2")}
EnvKeys == {None, Some(""), Some("k1")}

Requests ==
  [api_key : HeaderKeys, has_image : BOOLEAN, filename : Filenames,
   decodable : BOOLEAN, img : BatchImages \cup {OkImage(<<Malformed("t1")>>)}]

Response(st, msg, data) == [status |-> st, message |-> msg, data |-> data]

HInit ==
  /\ hpc = "idle"
  /\ env_key = None
  /\ req = [api_key |-> None, has_image |-> FALSE, filename |-> <<>>,
            decodable |-> FALSE, img |-> ReadFaultImage]
  /\ resp = None
  /\ core_calls = 0
  /\ ocr_result = None

\* a POST /process-image arrives
Receive ==
  /\ hpc = "idle"
  /\ \E r \in Requests, e \in EnvKeys : req' = r /\ env_key' = e
  /\ hpc' = "auth"
  /\ UNCHANGED <<resp, core_calls, ocr_result>>
  /\ UNCHANGED notH

\* require_api_key.decorated_function
RequireApiKey ==
  /\ hpc = "auth"
  /\ IF ApiKeyAccepted(req.api_key, env_key)
     THEN hpc' = "files" /\ resp' = resp
     ELSE /\ hpc' = "done"
          /\ resp' = Some(Response(403, "Forbidden: Invalid or missing API key", None))
  /\ UNCHANGED <<env_key, req, core_calls, ocr_result>>
  /\ UNCHANGED notH

\* if 'image' not in request.files
CheckFilePart ==
  /\ hpc = "files"
  /\ IF ~req.has_image
     THEN /\ hpc' = "done"
          /\ resp' = Some(Response(400, "No image file provided.", None))
     ELSE hpc' = "filename" /\ resp' = resp
  /\ UNCHANGED <<env_key, req, core_calls, ocr_result>>
  /\ UNCHANGED notH

\* if file.filename == ''
CheckFilename ==
  /\ hpc = "filename"
  /\ IF req.filename = <<>>
     THEN /\ hpc' = "done"
          /\ resp' = Some(Response(400, "No image selected for uploading.", None))
     ELSE hpc' = "extension" /\ resp' = resp
  /\ UNCHANGED <<env_key, req, core_calls, ocr_result>>
  /\ UNCHANGED notH

\* if file and allowed_file(file.filename): ... else: 400
CheckExtension ==
  /\ hpc = "extension"
  /\ IF FileTruthy(req.filename) /\ AllowedFile(req.filename)
     THEN hpc' = "open" /\ resp' = resp
     ELSE /\ hpc' = "done"
          /\ resp' = Some(Response(400,
                 "Invalid file format. Allowed types are: png, jpg, jpeg.", None))
  /\ UNCHANGED <<env_key, req, core_calls, ocr_result>>
  /\ UNCHANGED notH

\* image = Image.open(BytesIO(file.read())), inside the handler's try
OpenImage ==
  /\ hpc = "open"
  /\ IF req.decodable
     THEN hpc' = "core" /\ resp' = resp
     ELSE /\ hpc' = "done"
          /\ resp' = Some(Response(500, "Error opening or processing image.",
                                   Some("UnidentifiedImageError")))
  /\ UNCHANGED <<env_key, req, core_calls, ocr_result>>
  /\ UNCHANGED notH

\* ocr_result = image_processor.process_image(image)
CallCore ==
  /\ hpc = "core"
  /\ core_calls' = core_calls + 1
  /\ LET out == ProcessImageOutcome(req.img)
     IN IF out.kind = "return"
        THEN hpc' = "respond" /\ ocr_result' = Some(out.value) /\ resp' = resp
        ELSE /\ hpc' = "done"
             /\ ocr_result' = ocr_result
             /\ resp' = Some(Response(500, "Error opening or processing image.",
                                      Some(out.exc)))
  /\ UNCHANGED <<env_key, req>>
  /\ UNCHANGED notH

\* if ocr_result['success']: 200 with the text, else: 500 with the error
Respond ==
  /\ hpc = "respond"
  /\ resp' = IF ocr_result[1].success
             THEN Some(Response(200, "Image processed successfully!",
                                Some(ocr_result[1].text)))
             ELSE Some(Response(500, "Error processing the image.",
                                Some(ocr_result[1].error)))
  /\ hpc' = "done"
  /\ UNCHANGED <<env_key, req, core_calls, ocr_result>>
  /\ UNCHANGED notH

HNext ==
  \/ Receive
  \/ RequireApiKey
  \/ CheckFilePart
  \/ CheckFilename
  \/ CheckExtension
  \/ OpenImage
  \/ CallCore
  \/ Respond

\* --------------------------------------------------------- specifications
Init == PInit /\ BInit /\ TInit /\ HInit

\* one call of process_image
Spec == Init /\ [][PNext]_vars
\* one batch call, its worker threads interleaved
SpecBatch == Init /\ [][BNext]_vars
\* concurrent first constructions of ImageProcessor
SpecInit == Init /\ [][TNext]_vars
\* one request to /process-image
SpecHttp == Init /\ [][HNext]_vars

\* ------------------------------------------- reading a returned text back
RECURSIVE Split(_, _)
\* s.split(sep)
Split(s, sep) ==
  IF \A k \in 1..Len(s) : s[k] # sep THEN <<s>>
  ELSE LET i == CHOOSE k \in 1..Len(s) :
                  s[k] = sep /\ \A j \in 1..(k - 1) : s[j] # sep
       IN <<SubSeq(s, 1, i - 1)>> \o Split(SubSeq(s, i + 1, Len(s)), sep)

Succeeded == pc = "done" /\ ret # None /\ ret[1].success
OutLines == Split(ret[1].text, "\n")
\* The emitted bands: per line, its fragment texts in order.
Bands == [b \in 1..Len(OutLines) |-> SelectSeq(OutLines[b], LAMBDA t : t # " ")]
\* The fragment texts in reading order.
Flat == SelectSeq(ret[1].text, LAMBDA t : t # " " /\ t # "\n")
\* The detection a text belongs to (texts are distinct per detection).
DetOf(t) == CHOOSE k \in 1..Len(result) : result[k].text = <<t>>
YOf(t) == result[DetOf(t)].bbox[1][2]
XOf(t) == result[DetOf(t)].bbox[1][1]
\* The number of texts in the bands before band b.
Offset(b) ==
  Len(SelectSeq(Join("\n", SubSeq(OutLines, 1, b - 1)),
                LAMBDA t : t # " " /\ t # "\n"))
\* The band holding the k-th text in reading order.
BandOf(k) ==
  CHOOSE b \in 1..Len(Bands) : Offset(b) < k /\ k <= Offset(b) + Len(Bands[b])
DetectedYs == [k \in 1..Len(result) |-> result[k].bbox[1][2]]
DistinctAnchors ==
  \A i, j \in 1..Len(result) :
    i # j => result[i].bbox[1] # result[j].bbox[1]
Permuted(f) == [k \in 1..Len(result) |-> result[f[k]]]

\* The stepwise call ends as ProcessImageOutcome says (the batch and the
\* handler use the function; this ties it to the stepwise model).
OutcomeAgrees ==
  /\ pc = "done" => ProcessImageOutcome(image) = [kind |-> "return", value |-> ret[1]]
  /\ pc = "raised" => ProcessImageOutcome(image) = [kind |-> "raise", exc |-> exc[1]]

\* ------------------------------------------------------------------ claims

\* C1: during the sweep the current band's reference y is the anchor y of the
\* band's first member, and in the returned text each fragment after the first
\* lies in the band of its predecessor iff its y is within Tolerance of the
\* anchor y of that band's first fragment; otherwise it opens the next band.
C1_AnchoredBands ==
  /\ (pc = "sweep" /\ current_line # <<>>) =>
       current_y = Some(twc[idx - Len(current_line)][1])
  /\ Succeeded =>
       \A k \in 2..Len(Flat) :
         LET b == BandOf(k - 1)
         IN IF Abs(YOf(Flat[k]) - YOf(Bands[b][1])) <= Tolerance
            THEN BandOf(k) = b
            ELSE BandOf(k) = b + 1 /\ Bands[b + 1][1] = Flat[k]
  /\ (Succeeded /\ DetectedYs = <<0, 10>>) => Len(Bands) = 1
  /\ (Succeeded /\ DetectedYs = <<0, 11>>) => Len(Bands) = 2
  /\ (Succeeded /\ DetectedYs \in {<<0, 9, 18>>, <<18, 9, 0>>}) =>
       (Len(Bands) = 2 /\ Len(Bands[1]) = 2 /\ YOf(Bands[2][1]) = 18)
C1_Witness ==
  /\ Succeeded
  /\ DetectedYs = <<0, 9, 18>>
  /\ Len(Bands) = 2
  /\ Bands[2] = <<"t3">>

\* C2 as stated: within each emitted line, any two fragments appear in
\* ascending order of their anchor x.
C2_AscendingXInBand ==
  Succeeded =>
    \A b \in 1..Len(Bands) : \A p, q \in 1..Len(Bands[b]) :
      p < q => XOf(Bands[b][p]) <= XOf(Bands[b][q])
\* C2 amended: within each emitted line the fragments appear in ascending
\* (y, x) order of their anchors: ascending x among fragments of equal y,
\* ascending y otherwise, whatever the detection order.
C2_AscendingKeyInBand ==
  Succeeded =>
    \A b \in 1..Len(Bands) : \A p, q \in 1..Len(Bands[b]) :
      p < q =>
        \/ YOf(Bands[b][p]) < YOf(Bands[b][q])
        \/ /\ YOf(Bands[b][p]) = YOf(Bands[b][q])
           /\ XOf(Bands[b][p]) <= XOf(Bands[b][q])
C2_Witness ==
  /\ Succeeded
  /\ Len(result) = 2
  /\ result[1].bbox[1] = <<50, 9>>
  /\ result[2].bbox[1] = <<10, 9>>
  /\ Bands = <<<<"t2", "t1">>>>

\* C3: when no two fragments share an anchor, the returned text is the one
\* process_image returns for every permutation of the recognizer's list.
C3_PermutationInvariant ==
  (Succeeded /\ DistinctAnchors) =>
    \A f \in Permutations(1..Len(result)) :
      ProcessImageOutcome(OkImage(Permuted(f))) =
        [kind |-> "return", value |-> ret[1]]
C3_Witness ==
  /\ Succeeded
  /\ DistinctAnchors
  /\ Len(result) = 3
  /\ ExtractCoordinates(result) # twc

\* C4: a fault raised inside process_image is returned as a failure result;
\* no exception propagates to the caller.
C4_FaultsAreReturned ==
  /\ pc # "raised"
  /\ (pc = "done" /\ BodyFault(image) # None) =>
       (~ret[1].success /\ "error" \in DOMAIN ret[1])

\* C5: once the recognizer has returned an empty list the call is over with
\* the 'No text detected' failure, without a text field, and the extraction,
\* sort and sweep have not run.
C5_EmptyIsFailure ==
  (image.pre = "ok" /\ image.read = "ok" /\ image.frags = <<>>
     /\ pc \notin {"idle", "preprocess", "readtext", "check"}) =>
    /\ pc = "done"
    /\ ret = Some(NoTextFailure)
    /\ ~ret[1].success
    /\ "text" \notin DOMAIN ret[1]
    /\ idx = 0 /\ twc = <<>> /\ lines = <<>> /\ formatted_text = <<>>
C5_Witness ==
  /\ pc = "done"
  /\ image = OkImage(<<>>)
  /\ result = <<>>

\* C10: the returned text holds every fragment text exactly once, in (y, x)
\* order; no line is empty; each band's anchor y exceeds the previous band's
\* anchor y by more than Tolerance.
C10_Conservation ==
  Succeeded =>
    /\ Len(Flat) = Len(result)
    /\ \A k \in 1..Len(result) :
         Cardinality({j \in 1..Len(Flat) : <<Flat[j]>> = result[k].text}) = 1
    /\ \A p, q \in 1..Len(Flat) :
         p < q =>
           \/ YOf(Flat[p]) < YOf(Flat[q])
           \/ YOf(Flat[p]) = YOf(Flat[q]) /\ XOf(Flat[p]) <= XOf(Flat[q])
    /\ \A b \in 1..Len(OutLines) : OutLines[b] # <<>> /\ Bands[b] # <<>>
    /\ \A b \in 1..(Len(Bands) - 1) :
         YOf(Bands[b + 1][1]) > YOf(Bands[b][1]) + Tolerance
C10_Witness ==
  /\ Succeeded
  /\ Len(result) = 3
  /\ Len(Bands) = 2
  /\ Len(Bands[1]) = 2

\* What process_image returns for an image processed alone.
Alone(img) == ProcessImageOutcome(img)
BatchOver == bpc \in {"returned", "raised"}
Fails(img) == Alone(img).kind = "raise" \/ ~Alone(img).value.success

\* C6: a batch call returns exactly one result per image, the i-th being the
\* result of processing images[i], for every chunking and completion order.
C6_OrderPreserved ==
  BatchOver =>
    /\ bpc = "returned"
    /\ Len(results) = Len(images)
    /\ \A i \in 1..Len(images) :
         Alone(images[i]) = [kind |-> "return", value |-> results[i]]

\* C7: when the processing of an image fails, the batch call still returns a
\* result for every image: a failure result in the failing image's slot, and
\* in every other slot the result that image gets when processed alone.
C7_FailureIsolated ==
  (BatchOver /\ \E i \in 1..Len(images) : Fails(images[i])) =>
    /\ bpc = "returned"
    /\ Len(results) = Len(images)
    /\ \A i \in 1..Len(images) :
         IF Fails(images[i])
         THEN ~results[i].success
         ELSE Alone(images[i]).value = results[i]

\* C8: easyocr.Reader is constructed at most once, and all instances whose
\* __init__ has finished hold the same reader object.
C8_ConstructedOnce ==
  /\ constructed <= 1
  /\ \A t, u \in Threads :
       (tpc[t] = "done" /\ tpc[u] = "done") => self_reader[t] = self_reader[u]

\* The file extension: what follows the last '.', compared in lower case.
HasAllowedExtension(fn) ==
  \E k \in 1..Len(fn) :
    /\ fn[k] = "."
    /\ \A j \in (k + 1)..Len(fn) : fn[j] # "."
    /\ Lower(SubSeq(fn, k + 1, Len(fn))) \in {<<"png">>, <<"jpg">>, <<"jpeg">>}
ValidKey == req.api_key # None /\ req.api_key # Some("") /\ req.api_key = env_key
Eligible ==
  ValidKey /\ req.has_image /\ req.filename # <<>> /\ HasAllowedExtension(req.filename)

\* C9: the core is called only for a request with a valid key, an image part,
\* a non-empty filename and an allowed extension; any other request gets 403
\* (key) or 400 (file, filename, extension) and no core call; when the core
\* returned a result the response is 200 with its text or 500 with its error.
C9_HandlerGuardsCore ==
  /\ core_calls > 0 => Eligible
  /\ (hpc = "done" /\ ~Eligible) =>
       /\ core_calls = 0
       /\ resp[1].status = (IF ValidKey THEN 400 ELSE 403)
  /\ (hpc = "done" /\ ocr_result # None) =>
       /\ core_calls = 1
       /\ ocr_result[1] = Alone(req.img).value
       /\ IF ocr_result[1].success
          THEN resp[1].status = 200 /\ resp[1].data = Some(ocr_result[1].text)
          ELSE resp[1].status = 500 /\ resp[1].data = Some(ocr_result[1].error)
C9_Witness ==
  /\ hpc = "done"
  /\ req.filename = <<"a", ".", "PNG">>
  /\ core_calls = 1
  /\ resp[1].status = 200

====
